---------------------------- MODULE Spec2Model ----------------------------
(***************************************************************************)
(* A model of src/main.py: the access-control gate (API key, Referer, the  *)
(* in-memory per-IP rate limiter), the /check_harassment handler and the   *)
(* extract_json response extractor.                                        *)
(***************************************************************************)
EXTENDS Integers, Sequences, FiniteSets, TLC

VARIABLES
    clock,            \* the wall clock datetime.now() reads, in seconds
    rate_limit_data,  \* ip -> the timestamps recorded for it (absent = empty)
    rate_limit_lock,  \* the request holding rate_limit_lock, or Free
    req,              \* request slot -> the request it serves and where it stands
    admissions,       \* history: ip -> the timestamps of its admitted requests
    response_text,    \* the text handed to a direct call of extract_json
    parsed            \* what that call returned

serverVars == <<clock, rate_limit_data, rate_limit_lock, req, admissions>>

extractVars == <<response_text, parsed>>

vars == <<clock, rate_limit_data, rate_limit_lock, req, admissions,
          response_text, parsed>>

(***************************************************************************)
(* extract_json (src/main.py:139-160).                                     *)
(*                                                                         *)
(* A text is a sequence of fragments; the text itself is their             *)
(* concatenation.  The fragments are chosen so that every occurrence of    *)
(* "```json", "```", "{" and "}" in the concatenation starts at a fragment *)
(* boundary, so matching on fragments is matching on characters.           *)
(***************************************************************************)
\* The fragment ```json (a fence of three backticks and the tag).
FenceJson == "FENCE-json"
\* The fragment ``` (three backticks).
Fence == "FENCE"
LBrace == "{"
RBrace == "}"
Space == " "
Key == "\"a\":"

Scalar == "true"

Fragments == {FenceJson, Fence, LBrace, RBrace, Space, Key, Scalar}

\* Longest text, in fragments.
MaxLen == 6

Texts == UNION {[1..n -> Fragments] : n \in 0..MaxLen}

NotFound == -1

\* re.search found nothing (a match is never empty: it holds a "{" and a "}").
NoMatch == <<>>

\* str.find("{"): the first position holding fragment c, or -1.
Find(s, c) ==
    IF \E i \in 1..Len(s) : s[i] = c
    THEN CHOOSE i \in 1..Len(s) : s[i] = c /\ \A j \in 1..(i - 1) : s[j] # c
    ELSE NotFound

\* str.rfind("}"): the last position holding fragment c, or -1.
RFind(s, c) ==
    IF \E i \in 1..Len(s) : s[i] = c
    THEN CHOOSE i \in 1..Len(s) : s[i] = c /\ \A j \in (i + 1)..Len(s) : s[j] # c
    ELSE NotFound

\* \s* from position i: the first position at or after i that holds no whitespace.
RECURSIVE SkipWs(_, _)
SkipWs(s, i) ==
    IF i <= Len(s) /\ s[i] = Space THEN SkipWs(s, i + 1) ELSE i

\* "```" matches at position i: at a closing fence, or at the first three
\* characters of a "```json" fragment.
FenceAt(s, i) == i <= Len(s) /\ s[i] \in {Fence, FenceJson}

\* The positions j at which the group "(\{.*\})" opened at k may end: a "}"
\* followed by \s* and "```".
GroupEnds(s, k) ==
    {j \in (k + 1)..Len(s) : s[j] = RBrace /\ FenceAt(s, SkipWs(s, j + 1))}

\* The regular expression matches starting at position i.
MatchAt(s, i) ==
    /\ s[i] = FenceJson
    /\ LET k == SkipWs(s, i + 1)
       IN  k <= Len(s) /\ s[k] = LBrace /\ GroupEnds(s, k) # {}

Max(S) == CHOOSE x \in S : \A y \in S : y <= x

Min(S) == CHOOSE x \in S : \A y \in S : x <= y

\* The greedy ".*" takes the group to the last position it may end at.
GreedyEnd(S) == Max(S)

\* re.search(r"```json\s*(\{.*\})\s*```", text, re.DOTALL): group(1) of the
\* leftmost match, or NoMatch.
re_search(s) ==
    LET starts == {i \in 1..Len(s) : MatchAt(s, i)}
    IN  IF starts = {} THEN NoMatch
        ELSE LET k == SkipWs(s, Min(starts) + 1)
             IN  SubSeq(s, k, GreedyEnd(GroupEnds(s, k)))

(***************************************************************************)
(* A parsed JSON value is written in a canonical form, a sequence of       *)
(* strings: <<"True">> for true, <<"{", "}">> for {}, <<"{", "a">> \o v \o *)
(* <<"}">> for {"a": v}.  Whitespace and quoting are gone from it.         *)
(***************************************************************************)
Dict(key, v) == <<"{", key>> \o v \o <<"}">>

EmptyDict == <<"{", "}">>

ParseFail == [ok |-> FALSE, next |-> 0, val |-> <<>>]

\* The JSON scanner on a value starting at position i: true, "{" ws "}" or
\* "{" ws "a": ws value ws "}".
RECURSIVE ParseValue(_, _)
ParseValue(s, i) ==
    IF i > Len(s) THEN ParseFail
    ELSE IF s[i] = Scalar THEN [ok |-> TRUE, next |-> i + 1, val |-> <<"True">>]
    ELSE IF s[i] # LBrace THEN ParseFail
    ELSE LET j == SkipWs(s, i + 1)
         IN  IF j > Len(s) THEN ParseFail
             ELSE IF s[j] = RBrace THEN [ok |-> TRUE, next |-> j + 1, val |-> EmptyDict]
             ELSE IF s[j] # Key THEN ParseFail
             ELSE LET v == ParseValue(s, SkipWs(s, j + 1))
                      e == SkipWs(s, v.next)
                  IN  IF v.ok /\ e <= Len(s) /\ s[e] = RBrace
                      THEN [ok |-> TRUE, next |-> e + 1, val |-> Dict("a", v.val)]
                      ELSE ParseFail

JSONDecodeError == <<"raise", "JSONDecodeError">>

\* json.loads: the parsed document, or JSONDecodeError raised.
json_loads(s) ==
    LET r == ParseValue(s, SkipWs(s, 1))
    IN  IF r.ok /\ SkipWs(s, r.next) > Len(s) THEN r.val ELSE JSONDecodeError

ErrNoJson == Dict("error", <<"No valid JSON found in response.">>)

\* {"error": f"JSON decode error: {str(e)}"}; the position details of str(e)
\* are left out.
ErrDecode == Dict("error", <<"JSON decode error">>)

\* TryLoads as it would be without the except clause.
TryLoadsUncaught(json_str) == json_loads(json_str)

\* try: return json.loads(json_str) / except json.JSONDecodeError.
TryLoads(json_str) ==
    LET v == json_loads(json_str)
    IN  IF v = JSONDecodeError THEN ErrDecode ELSE v

\* The fallback span test: start == -1 or end == -1 or end <= start.
NoSpan(start, end) == start = NotFound \/ end = NotFound \/ end <= start

extract_json(s) ==
    LET match == re_search(s)
        start == Find(s, LBrace)
        end == RFind(s, RBrace)
    IN  IF match # NoMatch THEN TryLoads(match)
        ELSE IF NoSpan(start, end) THEN ErrNoJson
        ELSE TryLoads(SubSeq(s, start, end))

\* extract_json has not returned yet.
Pending == <<>>

(***************************************************************************)
(* The access-control gate (src/main.py:42-90).                            *)
(***************************************************************************)
\* Python's None: a header that was not sent.
None == "None"

API_KEY == "your_default_api_key"

WrongKey == "some_other_key"

Keys == {None, API_KEY, WrongKey}

SiteDomain == "aiharajudge.site"

\* A Referer is a sequence of parts; "x in referer" is x being one of them.
NoReferer == <<None>>

Referers ==
    { NoReferer,
      <<"https://", SiteDomain, "/">>,
      <<"https://", "other.example", "/?from=", SiteDomain>>,
      <<"https://", "other.example", "/">> }

IPs == {"10.0.0.1", "10.0.0.2"}

\* The request slots: requests the server has in flight at once.
Reqs == {1, 2}

Free == 0

RATE_LIMIT == 10

RATE_PERIOD == 60

SecondsPerDay == 86400

\* KeyAccepted as it would be if the header were only required to be there.
KeyAcceptedIfPresent(api_key) == api_key # None

\* Security(api_key_header) with auto_error=True turns a missing header into
\* 403 before get_api_key runs; get_api_key raises 403 unless api_key == API_KEY.
KeyAccepted(api_key) == api_key # None /\ api_key = API_KEY

\* referer is None or "aiharajudge.site" not in referer: 403.
RefererAccepted(referer) ==
    referer # NoReferer /\ \E i \in 1..Len(referer) : referer[i] = SiteDomain

\* (now - t).seconds: the seconds field of a normalised timedelta, which lies
\* in 0..86399 whatever the days field, negative or positive, is.
Seconds(now, t) == (now - t) % SecondsPerDay

\* t is kept by the filter of line 85.
Kept(now, t) == Seconds(now, t) < RATE_PERIOD

\* [t for t in timestamps if (now - t).seconds < RATE_PERIOD]
RECURSIVE FilterTimestamps(_, _)
FilterTimestamps(timestamps, now) ==
    IF timestamps = <<>> THEN <<>>
    ELSE LET rest == FilterTimestamps(Tail(timestamps), now)
         IN  IF Kept(now, Head(timestamps)) THEN <<Head(timestamps)>> \o rest ELSE rest

\* len(timestamps) >= RATE_LIMIT
OverLimit(timestamps) == Len(timestamps) >= RATE_LIMIT

\* Dependencies as they would be with the rate limiter listed first.
DependenciesRateFirst == <<"rate_limit", "get_api_key", "check_referer">>

\* dependencies=[Depends(get_api_key), Depends(check_referer), Depends(rate_limit)]:
\* solved in this order, the first one that raises ends the request.
Dependencies == <<"get_api_key", "check_referer", "rate_limit">>

\* Where a request goes when dependency `name` returned: the next dependency, or
\* the endpoint.
AfterDependency(name) ==
    LET i == CHOOSE k \in 1..Len(Dependencies) : Dependencies[k] = name
    IN  IF i < Len(Dependencies) THEN Dependencies[i + 1] ELSE "check_harassment"

(***************************************************************************)
(* The handler (src/main.py:163-232).                                      *)
(***************************************************************************)
\* An upload is known by its declared content type and whether Pillow opens it:
\*   "image"     content type image/*, Image.open succeeds
\*   "bad_image" content type image/*, Image.open raises
\*   "other"     a content type that does not start with "image/"
\*   "untyped"   no Content-Type on the part: content_type is None
UploadKinds == {"image", "bad_image", "other", "untyped"}

\* Most uploads in one request.
MaxUploads == 5

Uploads == UNION {[1..n -> UploadKinds] : n \in 0..MaxUploads}

ImageCap == 3

\* Considered as it would be without the slice.
ConsideredAll(images) == images

\* images[:3]
Considered(images) ==
    SubSeq(images, 1, IF Len(images) < ImageCap THEN Len(images) ELSE ImageCap)

ImageItem(i) == [kind |-> "image", index |-> i]

PromptItem == [kind |-> "prompt", index |-> 0]

\* The loop of lines 174-182 from upload i on, with the contents built so far:
\* the contents, or the status of what was raised (400 for HTTPException, 500
\* for the AttributeError of None.startswith).
RECURSIVE DecodeFrom(_, _, _)
DecodeFrom(images, i, contents) ==
    IF i > Len(images) THEN [status |-> 200, contents |-> contents]
    ELSE IF images[i] = "untyped" THEN [status |-> 500, contents |-> contents]
    ELSE IF images[i] = "other" THEN DecodeFrom(images, i + 1, contents)
    ELSE IF images[i] = "bad_image" THEN [status |-> 400, contents |-> contents]
    ELSE DecodeFrom(images, i + 1, Append(contents, ImageItem(i)))

\* Lines 172-212: contents, with the prompt appended last.
BuildContents(images) ==
    LET d == DecodeFrom(Considered(images), 1, <<>>)
    IN  IF d.status = 200
        THEN [status |-> 200, contents |-> Append(d.contents, PromptItem)]
        ELSE d

\* client.models.generate_content raised.
ModelRaised == <<"raise", "generate_content">>

\* What the model call may come back with: response.text, or an exception.
ModelOutcomes ==
    { <<FenceJson, LBrace, Key, Scalar, RBrace, Fence>>,
      <<LBrace, RBrace>>,
      <<Key, Scalar>>,
      <<LBrace, Key, RBrace>>,
      ModelRaised }

IdleReq ==
    [ pc |-> "idle", ip |-> None, api_key |-> None, referer |-> NoReferer,
      form_ok |-> FALSE, now |-> -1, images |-> <<>>, contents |-> <<>>,
      response |-> <<>>, status |-> 0, body |-> <<>>,
      admitted |-> FALSE, ran |-> FALSE, called |-> FALSE ]

\* The request of slot r ends with an error status (and `now`, local to
\* rate_limit, is gone).
Raise(r, code) == [req EXCEPT ![r].pc = "done", ![r].status = code, ![r].now = -1]

\* The oldest instant a request still to be checked can measure from: the clock,
\* or the `now` of a request that has read it and not yet been checked.
Horizon(c, q) ==
    Min({c} \cup {q[r].now : r \in {x \in Reqs : q[x].pc \in {"rate_limit_lock", "rate_limit_body"}}})

\* History kept only as far back as a trailing window can still reach.
RECURSIVE Recent(_, _)
Recent(log, h) ==
    IF log = <<>> THEN <<>>
    ELSE IF h - Head(log) >= RATE_PERIOD THEN Recent(Tail(log), h)
    ELSE <<Head(log)>> \o Recent(Tail(log), h)

ServerInit ==
    /\ clock = 0
    /\ rate_limit_data = [ip \in IPs |-> <<>>]
    /\ rate_limit_lock = Free
    /\ req = [r \in Reqs |-> IdleReq]
    /\ admissions = [ip \in IPs |-> <<>>]

\* A request arrives: its client address, headers and form are the inputs.
Arrive(r, ip, api_key, referer, form_ok) ==
    /\ req[r].pc = "idle"
    /\ req' = [req EXCEPT ![r] = [IdleReq EXCEPT !.pc = Dependencies[1], !.ip = ip,
                                   !.api_key = api_key, !.referer = referer,
                                   !.form_ok = form_ok]]
    /\ UNCHANGED <<clock, rate_limit_data, rate_limit_lock, admissions, extractVars>>

get_api_key(r) ==
    /\ req[r].pc = "get_api_key"
    /\ req' = IF KeyAccepted(req[r].api_key)
              THEN [req EXCEPT ![r].pc = AfterDependency("get_api_key")]
              ELSE Raise(r, 403)
    /\ UNCHANGED <<clock, rate_limit_data, rate_limit_lock, admissions, extractVars>>

check_referer(r) ==
    /\ req[r].pc = "check_referer"
    /\ req' = IF RefererAccepted(req[r].referer)
              THEN [req EXCEPT ![r].pc = AfterDependency("check_referer")]
              ELSE Raise(r, 403)
    /\ UNCHANGED <<clock, rate_limit_data, rate_limit_lock, admissions, extractVars>>

\* Lines 79-80: ip = request.client.host; now = datetime.now().
rate_limit_now(r) ==
    /\ req[r].pc = "rate_limit"
    /\ req' = [req EXCEPT ![r].pc = "rate_limit_lock", ![r].now = clock]
    /\ UNCHANGED <<clock, rate_limit_data, rate_limit_lock, admissions, extractVars>>

\* Line 82: with rate_limit_lock.
rate_limit_acquire(r) ==
    /\ req[r].pc = "rate_limit_lock"
    /\ rate_limit_lock = Free
    /\ rate_limit_lock' = r
    /\ req' = [req EXCEPT ![r].pc = "rate_limit_body"]
    /\ UNCHANGED <<clock, rate_limit_data, admissions, extractVars>>

\* Lines 83-90, and the release of the lock on leaving the with block either way.
rate_limit_body(r) ==
    /\ req[r].pc = "rate_limit_body"
    /\ rate_limit_lock = r
    /\ rate_limit_lock' = Free
    /\ LET ip == req[r].ip
           now == req[r].now
           timestamps == FilterTimestamps(rate_limit_data[ip], now)
       IN  IF OverLimit(timestamps)
           THEN /\ req' = Raise(r, 429)
                /\ rate_limit_data' = rate_limit_data
                /\ admissions' = [a \in IPs |-> Recent(admissions[a], Horizon(clock, req'))]
           ELSE /\ req' = [req EXCEPT ![r].pc = AfterDependency("rate_limit"),
                                      ![r].admitted = TRUE, ![r].now = -1]
                /\ rate_limit_data' = [rate_limit_data EXCEPT ![ip] = Append(timestamps, now)]
                /\ admissions' = [a \in IPs |->
                       Recent(IF a = ip THEN Append(admissions[a], now) ELSE admissions[a],
                              Horizon(clock, req'))]
    /\ UNCHANGED <<clock, extractVars>>

\* The endpoint, for a request whose uploads are any list in `uploads`:
\* text = Form(...) is required (422 without it), then lines 172-212 up to the
\* model call.
check_harassment(r, uploads) ==
    /\ req[r].pc = "check_harassment"
    /\ \E images \in uploads :
          req' = IF ~req[r].form_ok THEN Raise(r, 422)
                 ELSE LET b == BuildContents(images)
                      IN  IF b.status = 200
                          THEN [req EXCEPT ![r].pc = "generate_content", ![r].ran = TRUE,
                                           ![r].images = images, ![r].contents = b.contents,
                                           ![r].called = TRUE]
                          ELSE [req EXCEPT ![r].pc = "done", ![r].ran = TRUE,
                                           ![r].images = images, ![r].status = b.status]
    /\ UNCHANGED <<clock, rate_limit_data, rate_limit_lock, admissions, extractVars>>

\* Lines 224-232: the model call comes back with any of `outcomes` (a text, or
\* an exception), and the extractor's result is the response body.
generate_content(r, outcomes) ==
    /\ req[r].pc = "generate_content"
    /\ \E outcome \in outcomes :
          req' = IF outcome = ModelRaised
                 THEN [req EXCEPT ![r].pc = "done", ![r].response = outcome,
                                  ![r].status = 500]
                 ELSE [req EXCEPT ![r].pc = "done", ![r].response = outcome,
                                  ![r].status = 200, ![r].body = extract_json(outcome)]
    /\ UNCHANGED <<clock, rate_limit_data, rate_limit_lock, admissions, extractVars>>

\* The response is sent and the slot is free for the next request.
Respond(r) ==
    /\ req[r].pc = "done"
    /\ req' = [req EXCEPT ![r] = IdleReq]
    /\ UNCHANGED <<clock, rate_limit_data, rate_limit_lock, admissions, extractVars>>

\* Time passes: the clock reaches the later instant t.
Tick(t) ==
    /\ t > clock
    /\ clock' = t
    /\ admissions' = [a \in IPs |-> Recent(admissions[a], Horizon(clock', req))]
    /\ UNCHANGED <<rate_limit_data, rate_limit_lock, req, extractVars>>

\* The steps of the request in slot r once it has arrived.
Gate(r) ==
    \/ get_api_key(r)
    \/ check_referer(r)
    \/ rate_limit_now(r)
    \/ rate_limit_acquire(r)
    \/ rate_limit_body(r)

(***************************************************************************)
(* Spec: the server taking one request at a time, every request input      *)
(* drawn freely; the clock moves on by one whole window.                   *)
(***************************************************************************)
Init ==
    /\ ServerInit
    /\ response_text = <<>>
    /\ parsed = <<>>

Next ==
    \/ \E ip \in {"10.0.0.1"}, k \in Keys, f \in Referers, ok \in BOOLEAN :
           Arrive(1, ip, k, f, ok)
    \/ Gate(1)
    \/ check_harassment(1, Uploads)
    \/ generate_content(1, ModelOutcomes)
    \/ Respond(1)
    \/ Tick(RATE_PERIOD)

Spec == Init /\ [][Next]_vars

(***************************************************************************)
(* SpecDay: one request at a time from two addresses, with a plain form;   *)
(* the clock moves on to a window later and to a day later.                *)
(***************************************************************************)
DayInstants == {RATE_PERIOD, SecondsPerDay}

PlainUploads == {<<>>, <<"image">>}

PlainOutcomes == {<<LBrace, RBrace>>, ModelRaised}

NextDay ==
    \/ \E ip \in IPs, k \in Keys, f \in Referers : Arrive(1, ip, k, f, TRUE)
    \/ Gate(1)
    \/ check_harassment(1, PlainUploads)
    \/ generate_content(1, PlainOutcomes)
    \/ Respond(1)
    \/ \E t \in DayInstants : Tick(t)

SpecDay == Init /\ [][NextDay]_vars

(***************************************************************************)
(* SpecRace: two requests in flight at once from one address; the clock    *)
(* moves on to half a window later and to a whole window later.            *)
(***************************************************************************)
RaceInstants == {RATE_PERIOD \div 2, RATE_PERIOD}

\* The headers (X-API-Key, Referer) of the requests: right, a wrong key, a
\* foreign Referer.
RaceHeaders ==
    { <<API_KEY, <<"https://", SiteDomain, "/">>>>,
      <<WrongKey, <<"https://", SiteDomain, "/">>>>,
      <<API_KEY, <<"https://", "other.example", "/">>>> }

NextRace ==
    \/ \E r \in Reqs, h \in RaceHeaders : Arrive(r, "10.0.0.1", h[1], h[2], TRUE)
    \/ \E r \in Reqs : Gate(r)
    \/ \E r \in Reqs : check_harassment(r, {<<>>})
    \/ \E r \in Reqs : generate_content(r, {<<LBrace, RBrace>>})
    \/ \E r \in Reqs : Respond(r)
    \/ \E t \in RaceInstants : Tick(t)

SpecRace == Init /\ [][NextRace]_vars

(***************************************************************************)
(* SpecExtract: extract_json called on every text of up to MaxLen          *)
(* fragments.                                                              *)
(***************************************************************************)
ExtractInit ==
    /\ ServerInit
    /\ response_text \in Texts
    /\ parsed = Pending

\* One call of extract_json on the text.
Extract ==
    /\ parsed = Pending
    /\ parsed' = extract_json(response_text)
    /\ UNCHANGED response_text
    /\ UNCHANGED serverVars

SpecExtract == ExtractInit /\ [][Extract]_vars

(***************************************************************************)
(* The claims.                                                             *)
(***************************************************************************)
\* The step in which the rate limiter decides on the request of slot r.
Checked(r) == req[r].pc = "rate_limit_body" /\ req'[r].pc # "rate_limit_body"

\* The request of slot r carries the right key and a Referer naming the site.
KeyRight(r) == req[r].api_key = "your_default_api_key"

RefererRight(r) == \E i \in 1..Len(req[r].referer) : req[r].referer[i] = "aiharajudge.site"

\* How many admitted requests of ip have a timestamp in the 60 seconds up to now.
InTrailingWindow(ip, now) ==
    Cardinality({i \in DOMAIN admissions[ip] : now - admissions[ip][i] \in 0..59})

\* C1: a request that finds fewer than 10 admitted requests of its IP in its
\* trailing 60-second window is admitted (so the first 10 of a window all
\* are), and one that finds 10 of them there is rejected with 429.
C1_Threshold ==
    [][\A r \in Reqs : Checked(r) =>
          LET n == InTrailingWindow(req[r].ip, req[r].now)
          IN  /\ n < 10 => req'[r].admitted
              /\ n >= 10 => req'[r].status = 429]_vars

\* C2: a request arriving when every timestamp recorded for its IP is at
\* least 60 seconds old is admitted, however long after them it arrives.
C2_Readmission ==
    [][\A r \in Reqs : Checked(r) =>
          LET stored == rate_limit_data[req[r].ip]
          IN  (\A i \in DOMAIN stored : req[r].now - stored[i] >= 60)
                  => req'[r].admitted]_vars

\* C3: under every interleaving, the admitted requests of one IP whose
\* timestamps lie within one 60-second interval never number more than 10 (so
\* with one slot left at most one of two concurrent requests is admitted).
C3_ConcurrentAdmission ==
    \A ip \in IPs : \A i \in DOMAIN admissions[ip] :
        Cardinality({j \in DOMAIN admissions[ip] :
                        admissions[ip][j] - admissions[ip][i] \in 0..59}) <= 10

\* The timestamps of a list that lie in the 60 seconds up to now.
InWindow(timestamps, now) ==
    SelectSeq(timestamps, LAMBDA t : now - t \in 0..59)

\* C10: a rate-limit check of a request from IP a leaves every other IP's
\* entry alone; a rejection leaves the whole table alone; an admission makes
\* a's entry its in-window timestamps followed by the new one; and no stored
\* list is ever longer than 10.
C10_Frame ==
    [][\A r \in Reqs : Checked(r) =>
          LET ip == req[r].ip
          IN  /\ \A other \in IPs \ {ip} : rate_limit_data'[other] = rate_limit_data[other]
              /\ req'[r].status = 429 => rate_limit_data' = rate_limit_data
              /\ req'[r].admitted =>
                    rate_limit_data'[ip] =
                        Append(InWindow(rate_limit_data[ip], req[r].now), req[r].now)
              /\ \A a \in IPs : Len(rate_limit_data'[a]) <= 10]_vars

\* C9: the checks run key, then Referer, then rate limit: a step of a request
\* with a wrong key or a bad Referer never touches the rate-limit table and
\* never takes the request into the rate limiter; it ends in 403. So such
\* requests use up no slot of their IP's window.
C9_GateOrder ==
    [][\A r \in Reqs :
          (req[r].pc # "idle" /\ ~(KeyRight(r) /\ RefererRight(r)) /\ req'[r] # req[r]) =>
              /\ rate_limit_data' = rate_limit_data
              /\ req'[r].pc \in {"check_referer", "done", "idle"}
              /\ req'[r].pc = "check_referer" => KeyRight(r)
              /\ req'[r].pc = "done" => req'[r].status = 403
              /\ ~req'[r].admitted]_vars

\* C9's case: a request with the right key and a foreign Referer has been
\* refused while its IP's window holds 9 timestamps, all of them still there.
C9_Witness ==
    \E r \in Reqs :
        /\ req[r].pc = "done" /\ req[r].status = 403
        /\ KeyRight(r) /\ ~RefererRight(r)
        /\ Len(rate_limit_data[req[r].ip]) = 9

\* All three gate checks passed for the request of slot r.
GatePassed(r) == KeyRight(r) /\ RefererRight(r) /\ req[r].admitted

\* C4 as stated: the handler body runs for a request if and only if all three
\* gate checks passed for it.
C4_Original ==
    \A r \in Reqs : req[r].pc = "done" => (req[r].ran <=> GatePassed(r))

\* C4, amended: the handler body runs for a request if and only if all three
\* gate checks passed and its form validated (the required text field is
\* there); a request with any other key, or none, never runs the body and
\* never causes a model call.
C4_GateBeforeHandler ==
    \A r \in Reqs :
        /\ req[r].pc = "done" => (req[r].ran <=> (GatePassed(r) /\ req[r].form_ok))
        /\ req[r].ran => GatePassed(r)
        /\ req[r].called => req[r].ran
        /\ req[r].pc = "generate_content" => req[r].called

\* C4's case: a request that passed the gate ran the body and called the model.
C4_Witness ==
    \E r \in Reqs :
        req[r].pc = "done" /\ req[r].ran /\ req[r].called /\ req[r].status = 200

\* One of the uploads the handler considers (the first three) is an image
\* that cannot be decoded.
UndecodableConsidered(images) ==
    \E i \in 1..Len(images) : i <= 3 /\ images[i] = "bad_image"

\* C5: the status is 403 when the key or the Referer check fails, 429 when the
\* rate limiter rejects, 400 when a considered upload cannot be decoded, and
\* 200 in every other outcome of the handler's own logic (the model call did
\* not raise); a text that does not parse still gives 200, with the
\* extractor's result as the body.
C5_StatusMapping ==
    \A r \in Reqs : req[r].pc = "done" =>
        /\ ~(KeyRight(r) /\ RefererRight(r)) => req[r].status = 403
        /\ (KeyRight(r) /\ RefererRight(r) /\ ~req[r].admitted) => req[r].status = 429
        /\ (req[r].ran /\ req[r].response # ModelRaised) =>
              IF UndecodableConsidered(req[r].images)
              THEN req[r].status = 400
              ELSE /\ req[r].status = 200
                   /\ req[r].body \in {ErrNoJson, ErrDecode,
                                       Dict("a", <<"True">>), EmptyDict}

\* C8: of any list of uploads only positions 1 to 3 are considered: the
\* contents of the model call are the decoded images among them, in upload
\* order, at most 3, and then the prompt, once, as the last element.
C8_ImageCap ==
    \A r \in Reqs : req[r].pc = "generate_content" =>
        LET c == req[r].contents
            n == Len(c)
            images == req[r].images
        IN  /\ n >= 1 /\ n - 1 <= 3
            /\ c[n].kind = "prompt"
            /\ \A i \in 1..(n - 1) :
                  /\ c[i].kind = "image"
                  /\ c[i].index \in 1..3
                  /\ c[i].index <= Len(images)
                  /\ images[c[i].index] = "image"
                  /\ \A j \in (i + 1)..(n - 1) : c[i].index < c[j].index
            /\ \A k \in 1..Len(images) :
                  (k <= 3 /\ images[k] = "image") => \E i \in 1..(n - 1) : c[i].index = k

\* C8's case: 5 valid image uploads, and the call holds the first 3 and the prompt.
C8_Witness ==
    \E r \in Reqs :
        /\ req[r].pc = "generate_content"
        /\ req[r].images = <<"image", "image", "image", "image", "image">>
        /\ Len(req[r].contents) = 4
        /\ req[r].contents[3] = [kind |-> "image", index |-> 3]

\* The objects of the fenced blocks of s: a "```json", whitespace, a
\* well-formed object, whitespace, a closing "```".
FencedObjects(s) ==
    {json_loads(SubSeq(s, k, j)) : <<k, j>> \in
        {p \in (1..Len(s)) \X (1..Len(s)) :
            /\ p[1] >= 2 /\ p[1] <= p[2]
            /\ \E i \in 1..(p[1] - 1) : s[i] = FenceJson /\ SkipWs(s, i + 1) = p[1]
            /\ s[p[1]] = LBrace /\ s[p[2]] = RBrace
            /\ SkipWs(s, p[2] + 1) <= Len(s) /\ s[SkipWs(s, p[2] + 1)] = Fence
            /\ json_loads(SubSeq(s, p[1], p[2])) # JSONDecodeError}}

\* C6: for a text holding a fenced json block with a well-formed object
\* inside, whatever comes before or after it, extract_json returns exactly
\* that object.
C6_FencedBlock ==
    parsed # Pending => \A o \in FencedObjects(response_text) : parsed = o

HasFragment(s, c) == \E i \in 1..Len(s) : s[i] = c

\* The span extract_json is to parse: the fenced span, else the first "{" to
\* the last "}".
SelectedSpan(s) ==
    IF re_search(s) # NoMatch THEN re_search(s)
    ELSE SubSeq(s, Min({i \in 1..Len(s) : s[i] = LBrace}),
                   Max({i \in 1..Len(s) : s[i] = RBrace}))

=============================================================================
